---- MODULE Spec2Model ----
(***************************************************************************)
(* Model of src/bot.py: the mention poller of the Spredd Markets bot.      *)
(*                                                                         *)
(* Spec      the program: main() polling check_mentions() for ever.        *)
(* MainSpec  main() alone, run against a check_mentions that may return    *)
(*           or raise (lines 311-332 on their own).                        *)
(* FormatSpec format_market_tweet applied to a range of market records.    *)
(*                                                                         *)
(* Environment: the mention source, the posting interface, the market      *)
(* store and the image host may fail on any call.  The checkpoint file is  *)
(* readable and writable; what it holds at start-up is arbitrary.          *)
(***************************************************************************)
EXTENDS Integers, Sequences, FiniteSets, TLC

VARIABLES
    pc,                 \* position of the single thread of control
    consecutive_errors, \* main(): line 308
    sleep_time,         \* main(): line 325
    file,               \* last_mention_id.txt: [exists, content]
    created_at,         \* mention source: creation time of every mention
    last_id,            \* check_mentions(): line 184
    mentions_list,      \* check_mentions(): line 198
    mi,                 \* check_mentions(): position of the loop of line 200
    live_markets,       \* check_mentions(): line 205
    i,                  \* check_mentions(): enumerate index of line 229
    thread_ids,         \* check_mentions(): line 217
    tweet_text,         \* check_mentions(): line 231, result of the formatter
    temp_file,          \* upload_market_image(): a temp_image_*.jpg is on disk
    \* history variables, read by the properties only
    thread,             \* posts created for the mention being processed
    results,            \* outcome of every market step of that mention
    outcome,            \* how the processing of the last mention ended
    replied,            \* mentions a processing attempt has posted a reply to
    store_ok,           \* the store answered the last get_live_markets call
    last_set,           \* argument of the last set_last_mention_id call
    systemic_streak,    \* consecutive poll cycles whose fetch of mentions failed
    unpaced,            \* a post was created and no sleep was taken since
    delays              \* backoff sleeps of the current run of failures

vars == <<pc, consecutive_errors, sleep_time, file, created_at, last_id,
          mentions_list, mi, live_markets, i, thread_ids, tweet_text, temp_file,
          thread, results, outcome, replied, store_ok, last_set, systemic_streak,
          unpaced, delays>>

main_vars == <<consecutive_errors, sleep_time, delays>>
cm_vars == <<last_id, mentions_list, mi, live_markets, i, thread_ids, tweet_text>>
hist_vars == <<thread, results, outcome, replied, store_ok, last_set, systemic_streak,
               unpaced>>

----------------------------------------------------------------------------
(* Bounds of the model *)

MaxStreak == 5      \* systemic_streak stops counting here

(* Constants of the program *)

max_consecutive_errors == 5
backoff_base == 60
backoff_cap == 300
tweet_limit == 280
question_limit == 100
question_keep == 97
min_desc_len == 20
ellipsis_len == 3
len_header_prefix == 12
len_question_prefix == 3
len_expiry_prefix == 12
len_expiry_str == 25
len_link_prefix == 25
len_unknown_market == 14

Min(a, b) == IF a < b THEN a ELSE b

None == <<>>
Some(v) == <<v>>

----------------------------------------------------------------------------
(* The checkpoint file: text <-> integer *)

DigitChars == <<"0", "1", "2", "3", "4", "5", "6", "7", "8", "9">>
Whitespace == {" ", "\n"}

IsDigit(c) == \E d \in 1..10 : DigitChars[d] = c
DigitVal(c) == (CHOOSE d \in 1..10 : DigitChars[d] = c) - 1

RECURSIVE str(_)
str(v) == IF v < 10 THEN <<DigitChars[v + 1]>>
          ELSE str(v \div 10) \o <<DigitChars[(v % 10) + 1]>>

RECURSIVE lstrip(_)
lstrip(s) == IF s # <<>> /\ Head(s) \in Whitespace THEN lstrip(Tail(s)) ELSE s

RECURSIVE rstrip(_)
rstrip(s) == IF s # <<>> /\ s[Len(s)] \in Whitespace
             THEN rstrip(SubSeq(s, 1, Len(s) - 1)) ELSE s

strip(s) == rstrip(lstrip(s))

RECURSIVE DigitsValue(_)
DigitsValue(s) == IF s = <<>> THEN 0
                  ELSE 10 * DigitsValue(SubSeq(s, 1, Len(s) - 1)) + DigitVal(s[Len(s)])

\* int(text): [ok |-> FALSE] stands for ValueError
int(s) == IF s # <<>> /\ \A k \in 1..Len(s) : IsDigit(s[k])
          THEN [ok |-> TRUE, val |-> DigitsValue(s)]
          ELSE [ok |-> FALSE, val |-> 0]

NoFile == [exists |-> FALSE, content |-> <<>>]

get_last_mention_id(f) ==
    IF f.exists
    THEN LET r == int(strip(f.content)) IN IF r.ok THEN Some(r.val) ELSE None
    ELSE None

\* the file is opened for appending
set_last_mention_id_appends(mention_id) ==
    [exists |-> TRUE, content |-> file.content \o str(mention_id)]

set_last_mention_id(mention_id) == [exists |-> TRUE, content |-> str(mention_id)]

----------------------------------------------------------------------------
(* Market records.  Texts are modelled by their lengths in characters:     *)
(*   title      None (neither title nor description) or Some(length)       *)
(*   question   length, 0 when absent or empty                             *)
(*   expiry_ok  the expiry_date parses as an ISO timestamp                 *)
(*   expiry_raw length of str(expiry_date) as stored                       *)
(*   id         length of str(id), 0 when absent                           *)
(*   image_url  an image URL is present                                    *)

Market(title, question, expiry_ok, expiry_raw, id, image_url) ==
    [title |-> title, question |-> question, expiry_ok |-> expiry_ok,
     expiry_raw |-> expiry_raw, id |-> id, image_url |-> image_url]

Digits(n) == Len(str(n))

NoText == [raised |-> FALSE, len |-> 0]

\* format_market_tweet: [raised, len]; raised stands for the UnboundLocalError
\* of line 149, len is len(text) of the string returned
format_market_tweet(market, index, total) ==
    LET shown == IF market.title = None THEN len_unknown_market ELSE market.title[1]
        title == IF market.title = None THEN 0 ELSE market.title[1]
        head == len_header_prefix + Digits(index) + Digits(total)
        question == IF market.question > question_limit
                    THEN question_keep + ellipsis_len ELSE market.question
        qseg == IF market.question > 0 THEN len_question_prefix + question ELSE 0
        eseg == len_expiry_prefix
                + (IF market.expiry_ok THEN len_expiry_str ELSE market.expiry_raw)
        lseg == IF market.id > 0 THEN len_link_prefix + market.id ELSE 0
        text == head + shown + qseg + eseg + lseg
        max_desc_len == tweet_limit - text + title
        truncated_desc == Min(title, max_desc_len - ellipsis_len) + ellipsis_len
    IN  IF text > tweet_limit /\ max_desc_len > min_desc_len
        THEN IF market.expiry_ok
             THEN [raised |-> FALSE,
                   len |-> head + truncated_desc + qseg
                           + len_expiry_prefix + len_expiry_str + lseg]
             ELSE [raised |-> TRUE, len |-> 0]
        ELSE [raised |-> FALSE, len |-> text]

\* the rows of the markets table in the program's runs, most recently
\* created first; a query returns those that are live and unexpired then
ImageMarket == Market(Some(40), 60, TRUE, 20, 36, TRUE)
PlainMarket == Market(Some(40), 0, TRUE, 20, 36, FALSE)
LongTitleMarket == Market(Some(300), 150, TRUE, 20, 36, TRUE)
BadExpiryMarket == Market(Some(300), 0, FALSE, 7, 36, FALSE)
StoreRows == <<ImageMarket, PlainMarket, LongTitleMarket, BadExpiryMarket>>

RECURSIVE Rows(_, _)
Rows(eligible, k) ==
    IF k > Len(StoreRows) THEN <<>>
    ELSE (IF k \in eligible THEN <<StoreRows[k]>> ELSE <<>>) \o Rows(eligible, k + 1)

MarketLists == {Rows(eligible, 1) : eligible \in SUBSET (1..Len(StoreRows))}

\* what the store does on one query: it answers with rows, or is unreachable
StoreAnswers == {[ok |-> TRUE, data |-> ms] : ms \in MarketLists}
                \cup {[ok |-> FALSE, data |-> <<>>]}

get_live_markets(answer) == IF answer.ok THEN answer.data ELSE <<>>

\* upload_market_image: how one call ends; the result is a media id (TRUE)
\* or None (FALSE)
UploadOutcomes == {"download_failed", "write_failed", "upload_failed", "ok"}
\* the failure of the download or of the upload is not caught
upload_market_image_raises(how) ==
    [raised |-> how # "ok",
     media_id |-> how = "ok",
     leaves_temp_file |-> how \in {"write_failed", "upload_failed"}]

upload_market_image(how) ==
    [raised |-> FALSE,
     media_id |-> how = "ok",
     leaves_temp_file |-> how \in {"write_failed", "upload_failed"}]

----------------------------------------------------------------------------
(* The mention source *)

MentionIds == {9, 10}
Times == {1, 2}

Mention(id) == [id |-> id, created_at |-> created_at[id]]

RECURSIVE Insert(_, _)
Insert(sorted_seq, x) ==
    IF sorted_seq = <<>> THEN <<x>>
    ELSE IF sorted_seq[Len(sorted_seq)].created_at <= x.created_at
         THEN Append(sorted_seq, x)
         ELSE Append(Insert(SubSeq(sorted_seq, 1, Len(sorted_seq) - 1), x),
                     sorted_seq[Len(sorted_seq)])

\* sorted(data, key=created_at): stable
RECURSIVE sorted(_)
sorted(data) == IF data = <<>> THEN <<>>
                ELSE Insert(sorted(SubSeq(data, 1, Len(data) - 1)), data[Len(data)])

Orders(S) == {o \in [1..Cardinality(S) -> S] : \A a, b \in DOMAIN o : a # b => o[a] # o[b]}

\* get_mentions(since_id): the mentions after since_id, in the order served
get_mentions(since_id) ==
    LET batch == {Mention(m) : m \in {x \in MentionIds : since_id = None \/ x > since_id[1]}}
    IN  Orders(batch)

NewPostId(t) == 100 * (Len(t) + 1)

Post(kind, market, reply_to, media) ==
    [id |-> NewPostId(thread), kind |-> kind, market |-> market,
     reply_to |-> reply_to, media |-> media]

----------------------------------------------------------------------------
(* Initial state: main() has passed its health check (line 304) and is at  *)
(* the top of its loop.                                                    *)

InitialFiles == {NoFile,
                 [exists |-> TRUE, content |-> <<"9", "x">>],
                 [exists |-> TRUE, content |-> <<"9", "\n">>]}

Base ==
    /\ consecutive_errors = 0
    /\ sleep_time = 0
    /\ file \in InitialFiles
    /\ created_at \in {c \in [MentionIds -> Times] : \E m \in MentionIds : c[m] = 1}
    /\ last_id = None
    /\ mentions_list = <<>>
    /\ mi = 0
    /\ thread_ids = <<>>
    /\ tweet_text = NoText
    /\ temp_file = FALSE
    /\ thread = <<>>
    /\ results = <<>>
    /\ outcome = "none"
    /\ replied = {}
    /\ store_ok = TRUE
    /\ last_set = None
    /\ systemic_streak = 0
    /\ unpaced = FALSE
    /\ delays = <<>>

Init == pc = "main_try" /\ Base /\ live_markets = <<>> /\ i = 0

----------------------------------------------------------------------------
(* main() *)

\* the cap is missing
sleep_time_uncapped(errors) == backoff_base * (2 ^ errors)

sleep_time_for(errors) == Min(backoff_cap, backoff_base * (2 ^ errors))

\* line 313: main calls check_mentions
MainCall ==
    /\ pc = "main_try"
    /\ pc' = "cm_get_last"
    /\ UNCHANGED <<main_vars, file, created_at, cm_vars, temp_file, hist_vars>>

\* lines 314 and 331-332: check_mentions returned; its locals are gone
MainSuccess ==
    /\ pc = "cm_return"
    /\ consecutive_errors' = 0
    /\ delays' = <<>>
    /\ pc' = "main_idle"
    /\ last_id' = None
    /\ mentions_list' = <<>>
    /\ mi' = 0
    /\ live_markets' = <<>>
    /\ i' = 0
    /\ thread_ids' = <<>>
    /\ tweet_text' = NoText
    /\ thread' = <<>>
    /\ results' = <<>>
    /\ outcome' = "none"
    /\ unpaced' = FALSE
    /\ UNCHANGED <<sleep_time, file, created_at, temp_file, replied, store_ok,
                   last_set, systemic_streak>>

\* lines 316-328: the handler of the loop body
MainExcept ==
    /\ pc = "main_except"
    /\ consecutive_errors' = consecutive_errors + 1
    /\ IF consecutive_errors' >= max_consecutive_errors
       THEN pc' = "terminated" /\ UNCHANGED <<sleep_time, delays>>
       ELSE /\ sleep_time' = sleep_time_for(consecutive_errors')
            /\ delays' = Append(delays, sleep_time')
            /\ pc' = "main_backoff"
    /\ UNCHANGED <<file, created_at, cm_vars, temp_file, hist_vars>>

\* the sleep of line 327 or of line 332 ends; back to line 311
MainWake ==
    /\ pc \in {"main_idle", "main_backoff"}
    /\ pc' = "main_try"
    /\ UNCHANGED <<main_vars, file, created_at, cm_vars, temp_file, hist_vars>>

----------------------------------------------------------------------------
(* check_mentions() *)

\* line 184
GetLast ==
    /\ pc = "cm_get_last"
    /\ last_id' = get_last_mention_id(file)
    /\ pc' = "cm_fetch"
    /\ UNCHANGED <<main_vars, file, created_at, mentions_list, mi, live_markets, i,
                   thread_ids, tweet_text, temp_file, hist_vars>>

\* lines 187-198; when get_mentions raises, lines 276-277 log it and the
\* function returns
FetchMentions ==
    /\ pc = "cm_fetch"
    /\ \/ /\ systemic_streak' = Min(systemic_streak + 1, MaxStreak)
          /\ pc' = "cm_return"
          /\ UNCHANGED <<mentions_list, mi>>
       \/ /\ systemic_streak' = 0
          /\ \E data \in get_mentions(last_id) :
                IF data = <<>>
                THEN pc' = "cm_return" /\ UNCHANGED <<mentions_list, mi>>
                ELSE /\ mentions_list' = sorted(data)
                     /\ mi' = 1
                     /\ pc' = "cm_mention"
    /\ UNCHANGED <<main_vars, file, created_at, last_id, live_markets, i, thread_ids,
                   tweet_text, temp_file, thread, results, outcome, replied,
                   store_ok, last_set, unpaced>>

mention == mentions_list[mi]

\* the for statement of line 200 takes the next mention or ends
NextMention ==
    /\ mi' = mi + 1
    /\ pc' = IF mi + 1 <= Len(mentions_list) THEN "cm_mention" ELSE "cm_return"

\* lines 266-268: the handler of one mention; what names the call that raised
MentionExcept(what) ==
    /\ outcome' = what
    /\ NextMention

\* the first reply of a processing attempt is posted
FirstReply == replied' = replied \cup {mention.id}

\* lines 200-207: the next mention; the markets are fetched
MentionBegin ==
    /\ pc = "cm_mention"
    /\ \E answer \in StoreAnswers :
          /\ live_markets' = get_live_markets(answer)
          /\ store_ok' = answer.ok
    /\ pc' = IF live_markets' = <<>> THEN "cm_no_markets" ELSE "cm_header"
    /\ i' = 0
    /\ thread_ids' = <<>>
    /\ tweet_text' = NoText
    /\ thread' = <<>>
    /\ results' = <<>>
    /\ outcome' = "none"
    /\ UNCHANGED <<main_vars, file, created_at, last_id, mentions_list, mi, temp_file,
                   replied, last_set, systemic_streak, unpaced>>

\* lines 209-214
NoMarketsReply ==
    /\ pc = "cm_no_markets"
    /\ \/ /\ thread' = Append(thread, Post("no_markets", 0, mention.id, FALSE))
          /\ FirstReply
          /\ unpaced' = TRUE
          /\ outcome' = "no_markets"
          /\ NextMention
       \/ /\ MentionExcept("reply_failed")
          /\ UNCHANGED <<thread, replied, unpaced>>
    /\ UNCHANGED <<main_vars, file, created_at, last_id, mentions_list, live_markets, i,
                   thread_ids, tweet_text, temp_file, results, store_ok, last_set,
                   systemic_streak>>

\* lines 217-226
Header ==
    /\ pc = "cm_header"
    /\ \/ /\ thread' = Append(thread, Post("header", 0, mention.id, FALSE))
          /\ thread_ids' = <<NewPostId(thread)>>
          /\ FirstReply
          /\ unpaced' = TRUE
          /\ i' = 1
          /\ pc' = "cm_market"
          /\ UNCHANGED <<mi, outcome>>
       \/ /\ MentionExcept("header_failed")
          /\ UNCHANGED <<thread, thread_ids, replied, i, unpaced>>
    /\ UNCHANGED <<main_vars, file, created_at, last_id, mentions_list, live_markets,
                   tweet_text, temp_file, results, store_ok, last_set, systemic_streak>>

\* history of one market step: how it ended, and what the upload returned
MarketResult(how, upload) == [post |-> how, upload |-> upload]

\* the failure of a market goes on to the handler of the mention
MarketExceptAborts(how, upload) ==
    /\ results' = Append(results, MarketResult(how, upload))
    /\ MentionExcept("market_failed")
    /\ UNCHANGED <<thread, thread_ids, i, unpaced>>

\* lines 254-256: the handler of one market
MarketExcept(how, upload) ==
    /\ results' = Append(results, MarketResult(how, upload))
    /\ i' = i + 1
    /\ pc' = "cm_market"
    /\ UNCHANGED <<thread, thread_ids, mi, outcome, unpaced>>

\* every market's tweet replies to the header instead of the tail
PostMarketRepliesToHeader(media, upload) ==
    \/ /\ thread' = Append(thread, Post("market", i, thread_ids[1], media))
       /\ thread_ids' = Append(thread_ids, NewPostId(thread))
       /\ results' = Append(results, MarketResult("posted", upload))
       /\ unpaced' = TRUE
       /\ i' = i + 1
       /\ pc' = "cm_market"
       /\ UNCHANGED <<mi, outcome>>
    \/ MarketExcept("post_error", upload)

\* lines 238-252: the market's tweet is posted as a reply to the tail
PostMarket(media, upload) ==
    \/ /\ thread' = Append(thread, Post("market", i, thread_ids[Len(thread_ids)], media))
       /\ thread_ids' = Append(thread_ids, NewPostId(thread))
       /\ results' = Append(results, MarketResult("posted", upload))
       /\ unpaced' = TRUE
       /\ i' = i + 1
       /\ pc' = "cm_market"
       /\ UNCHANGED <<mi, outcome>>
    \/ MarketExcept("post_error", upload)

\* lines 229-256: one market of the thread
MarketStep ==
    /\ pc = "cm_market"
    /\ i <= Len(live_markets)
    /\ LET market == live_markets[i]
           text == format_market_tweet(market, i, Len(live_markets))
       IN  /\ tweet_text' = text
           /\ IF text.raised
              THEN MarketExcept("format_error", "not_called") /\ UNCHANGED temp_file
              ELSE IF ~market.image_url
              THEN PostMarket(FALSE, "not_called") /\ UNCHANGED temp_file
              ELSE \E how \in UploadOutcomes :
                      LET up == upload_market_image(how) IN
                      /\ temp_file' = (temp_file \/ up.leaves_temp_file)
                      /\ IF up.raised
                         THEN MarketExcept("upload_error", "raised")
                         ELSE PostMarket(up.media_id,
                                         IF up.media_id THEN "media_id" ELSE "None")
    /\ UNCHANGED <<main_vars, file, created_at, last_id, mentions_list, live_markets,
                   replied, store_ok, last_set, systemic_streak>>

\* the closing post is left out when a market of the thread failed
ClosingSkippedAfterFailure ==
    /\ pc = "cm_market"
    /\ i > Len(live_markets)
    /\ IF \E k \in 1..Len(results) : results[k].post # "posted"
       THEN pc' = "cm_set" /\ UNCHANGED <<thread, mi, outcome, unpaced>>
       ELSE \/ /\ thread' = Append(thread,
                       Post("closing", 0, thread_ids[Len(thread_ids)], FALSE))
               /\ unpaced' = TRUE
               /\ pc' = "cm_set"
               /\ UNCHANGED <<mi, outcome>>
            \/ /\ MentionExcept("closing_failed")
               /\ UNCHANGED <<thread, unpaced>>
    /\ UNCHANGED <<main_vars, file, created_at, last_id, mentions_list, live_markets, i,
                   thread_ids, tweet_text, temp_file, results, replied, store_ok,
                   last_set, systemic_streak>>

\* the handler of the mention does not leave the iteration: after a failed
\* closing post the checkpoint is written all the same
ClosingFailureFallsThrough ==
    /\ pc = "cm_market"
    /\ i > Len(live_markets)
    /\ \/ /\ thread' = Append(thread, Post("closing", 0, thread_ids[Len(thread_ids)], FALSE))
          /\ unpaced' = TRUE
       \/ UNCHANGED <<thread, unpaced>>
    /\ pc' = "cm_set"
    /\ UNCHANGED <<main_vars, file, created_at, last_id, mentions_list, mi, live_markets,
                   i, thread_ids, tweet_text, temp_file, results, outcome, replied,
                   store_ok, last_set, systemic_streak>>

\* lines 258-264
Closing ==
    /\ pc = "cm_market"
    /\ i > Len(live_markets)
    /\ \/ /\ thread' = Append(thread, Post("closing", 0, thread_ids[Len(thread_ids)], FALSE))
          /\ unpaced' = TRUE
          /\ pc' = "cm_set"
          /\ UNCHANGED <<mi, outcome>>
       \/ /\ MentionExcept("closing_failed")
          /\ UNCHANGED <<thread, unpaced>>
    /\ UNCHANGED <<main_vars, file, created_at, last_id, mentions_list, live_markets, i,
                   thread_ids, tweet_text, temp_file, results, replied, store_ok,
                   last_set, systemic_streak>>

\* lines 270-274; the sleep of line 274 is taken here
SetLast ==
    /\ pc = "cm_set"
    /\ unpaced' = FALSE
    /\ file' = set_last_mention_id(mention.id)
    /\ last_set' = Some(mention.id)
    /\ outcome' = "built"
    /\ NextMention
    /\ UNCHANGED <<main_vars, created_at, last_id, mentions_list, live_markets, i,
                   thread_ids, tweet_text, temp_file, thread, results, replied,
                   store_ok, systemic_streak>>

----------------------------------------------------------------------------
Next ==
    \/ MainCall
    \/ GetLast
    \/ FetchMentions
    \/ MentionBegin
    \/ NoMarketsReply
    \/ Header
    \/ MarketStep
    \/ Closing
    \/ SetLast
    \/ MainSuccess
    \/ MainWake

Spec == Init /\ [][Next]_vars

----------------------------------------------------------------------------
(* main() on its own: check_mentions is any callee, which returns or raises *)

StubCheckMentions ==
    /\ pc = "main_try"
    /\ pc' \in {"cm_return", "main_except"}
    /\ UNCHANGED <<main_vars, file, created_at, cm_vars, temp_file, hist_vars>>

MainNext ==
    \/ StubCheckMentions
    \/ MainSuccess
    \/ MainExcept
    \/ MainWake

MainSpec == Init /\ [][MainNext]_vars

----------------------------------------------------------------------------
(* format_market_tweet on its own *)

FormatInputs ==
    {Market(title, question, expiry[1], expiry[2], id, FALSE) :
        title \in {None, Some(0), Some(30), Some(300)},
        question \in {0, 50, 100, 101, 150},
        expiry \in {<<TRUE, 20>>, <<FALSE, 7>>, <<FALSE, 25>>},
        id \in {0, 36, 90, 120}}

FormatInit ==
    /\ pc = "fmt_call"
    /\ Base
    /\ \E market \in FormatInputs : live_markets = <<market>>
    /\ i = 1

FormatCall ==
    /\ pc = "fmt_call"
    /\ tweet_text' = format_market_tweet(live_markets[i], i, Len(live_markets))
    /\ pc' = "fmt_done"
    /\ UNCHANGED <<main_vars, file, created_at, last_id, mentions_list, mi, live_markets,
                   i, thread_ids, temp_file, hist_vars>>

FormatNext == FormatCall

FormatSpec == FormatInit /\ [][FormatNext]_vars

----------------------------------------------------------------------------
(* Properties *)

\* the mention whose processing has just ended (outcome # "none")
done == mentions_list[mi - 1]

FailedOutcomes == {"reply_failed", "header_failed", "closing_failed"}

Checkpoint(v) == file.exists /\ file.content = str(v)

\* the thread's positions that hold a post of the given kind
Of(kind) == {j \in 1..Len(thread) : thread[j].kind = kind}

\* the markets whose step ended with a post, in order
RECURSIVE PostedUpTo(_)
PostedUpTo(k) ==
    IF k = 0 THEN <<>>
    ELSE PostedUpTo(k - 1) \o (IF results[k].post = "posted" THEN <<k>> ELSE <<>>)

\* the market numbers of the thread's market posts, in order
RECURSIVE MarketsUpTo(_)
MarketsUpTo(j) ==
    IF j = 0 THEN <<>>
    ELSE MarketsUpTo(j - 1) \o (IF thread[j].kind = "market" THEN <<thread[j].market>> ELSE <<>>)

\* C1: when the processing of a mention has ended, with its thread built or
\* with a failure caught by the handler of the mention, the checkpoint file
\* holds that mention's identifier before the next mention is taken.
C1_CheckpointAfterEveryAttempt ==
    outcome \in {"built"} \cup FailedOutcomes => Checkpoint(done.id)

\* C2: when the store returned no markets, exactly one post was made, the
\* "no live markets" reply to the mention, and the checkpoint file holds the
\* mention's identifier.
C2_NoMarketsReplyThenCheckpoint ==
    outcome = "no_markets" =>
        /\ Len(thread) = 1
        /\ thread[1].kind = "no_markets"
        /\ thread[1].reply_to = done.id
        /\ Checkpoint(done.id)

\* C3: once five consecutive poll cycles have failed to reach the mention
\* source, main() has counted five errors and is terminated: it is not
\* sleeping towards, or starting, another poll cycle.
C3_FiveSystemicFailuresTerminate ==
    systemic_streak >= max_consecutive_errors
        /\ pc \in {"main_idle", "main_backoff", "main_try", "terminated"}
    => pc = "terminated" /\ consecutive_errors = max_consecutive_errors

\* C4: a market whose step fails contributes no post and stops nothing: every
\* market of the list is stepped through in order before the closing post,
\* the handler of the mention is reached from the header and the closing
\* post only, the thread holds the header, one post for each market whose
\* step succeeded, in order, and the closing post; with 3 markets of which
\* the 2nd fails to post that is header, market 1, market 3 and closing.
C4_MarketFailureIsolated ==
    /\ pc = "cm_market" => Len(results) = i - 1
    /\ pc = "cm_set" \/ (outcome # "none" /\ Of("header") # {})
          => Len(results) = Len(live_markets)
    /\ Of("header") # {} => MarketsUpTo(Len(thread)) = PostedUpTo(Len(results))
    /\ outcome = "built" =>
          /\ Len(thread) = Len(PostedUpTo(Len(results))) + 2
          /\ thread[1].kind = "header"
          /\ thread[Len(thread)].kind = "closing"
    /\ outcome = "built" /\ Len(results) = 3
          /\ results[1].post = "posted" /\ results[2].post = "post_error"
          /\ results[3].post = "posted"
          => /\ Len(thread) = 4
             /\ thread[2].market = 1
             /\ thread[3].market = 3

C4_Witness ==
    /\ outcome = "built"
    /\ Len(live_markets) = 3
    /\ results[1].post = "posted" /\ results[2].post = "post_error"
    /\ results[3].post = "posted"
    /\ Len(thread) = 4

\* C5: upload_market_image never raises into the market step, and a market
\* with an image URL whose upload returned None is still posted, without
\* media; 3 markets that are all posted, one after a failed upload, give a
\* thread of 5 posts.
C5_FailedUploadDoesNotBlockPost ==
    /\ \A k \in 1..Len(results) :
          live_markets[k].image_url /\ results[k].post # "format_error" =>
             /\ results[k].upload \in {"media_id", "None"}
             /\ results[k].post \in {"posted", "post_error"}
             /\ results[k].post = "posted" =>
                   \E j \in Of("market") :
                      /\ thread[j].market = k
                      /\ thread[j].media = (results[k].upload = "media_id")
    /\ outcome = "built" /\ Len(results) = 3
          /\ (\A k \in 1..3 : results[k].post = "posted")
          => Len(thread) = 5

C5_Witness ==
    /\ outcome = "built"
    /\ Len(results) = 3
    /\ \A k \in 1..3 : results[k].post = "posted"
    /\ Cardinality({k \in 1..3 : live_markets[k].image_url}) = 2
    /\ Cardinality({k \in 1..3 : results[k].upload = "None"}) = 1
    /\ Cardinality({j \in Of("market") : ~thread[j].media}) = 2
    /\ Len(thread) = 5

\* C6 as claimed: a mention whose processing has ended with a market post
\* in its thread also has the closing post in that thread.
C6_ClosingPostAlwaysMade ==
    outcome # "none" /\ Of("market") # {} => Of("closing") # {}

\* C6 as amended: a mention whose processing has ended with a market post in
\* its thread has the closing post as the last post of that thread, unless
\* the call that posts the closing post itself raised, after all markets
\* were stepped through.
C6_ClosingPostAlwaysAttempted ==
    outcome # "none" /\ Of("market") # {} =>
        \/ outcome = "built" /\ Of("closing") = {Len(thread)}
        \/ outcome = "closing_failed" /\ Len(results) = Len(live_markets)

C6_Witness ==
    /\ outcome = "built"
    /\ Of("market") # {}
    /\ \E k \in 1..Len(results) : results[k].post = "post_error"
    /\ Of("closing") = {Len(thread)}

\* len(text) as composed by lines 119-138, before any truncation
ComposedLen(market, index, total) ==
    12 + Digits(index) + Digits(total)
    + (IF market.title = None THEN 14 ELSE market.title[1])
    + (IF market.question = 0 THEN 0
       ELSE 3 + (IF market.question > 100 THEN 100 ELSE market.question))
    + 12 + (IF market.expiry_ok THEN 25 ELSE market.expiry_raw)
    + (IF market.id = 0 THEN 0 ELSE 25 + market.id)

\* C7: for a market with a title whose composed text is longer than 280
\* characters, format_market_tweet returns a text, which is not empty and
\* at most 280 characters long.
C7_TruncatedTextFits ==
    pc = "fmt_done" /\ live_markets[i].title # None /\ live_markets[i].title[1] > 0
        /\ ComposedLen(live_markets[i], i, Len(live_markets)) > 280
    => /\ ~tweet_text.raised
       /\ tweet_text.len > 0
       /\ tweet_text.len <= 280

C9_CheckpointRoundTrip ==
    pc = "cm_fetch" =>
        IF last_set # None THEN last_id = last_set
        ELSE /\ ~file.exists => last_id = None
             /\ file.exists /\ file.content = <<"9", "x">> => last_id = None
             /\ file.exists /\ file.content = <<"9", "\n">> => last_id = Some(9)

C9_Witness ==
    /\ pc = "cm_fetch"
    /\ last_set = Some(10)
    /\ last_id = Some(10)

\* C10: the first reply of a processing attempt is never posted to a mention
\* that an earlier processing attempt has already posted a reply to.
C10_NoDuplicateReplies ==
    [][thread = <<>> /\ thread' # <<>> => mentions_list[mi].id \notin replied]_vars

\* C11: whenever upload_market_image has returned, by any of its exit paths,
\* no temporary image file it created is left on disk.
C11_NoTempFileLeft ==
    ~temp_file

\* C12: the "no live markets" reply is posted to a mention only when the
\* store was reached and answered with no eligible rows, never when the
\* query to the store failed.
C12_NoMarketsReplyOnlyWhenStoreAnswered ==
    Of("no_markets") # {} => store_ok

\* C13: when a poll cycle has ended and main() sleeps or has stopped: after a
\* cycle whose fetch of mentions raised, the loop is in its backoff (or has
\* stopped) and consecutive_errors counts the failed cycles in a row; after a
\* cycle without such a failure, the loop sleeps its regular interval and
\* consecutive_errors is zero.
C13_SystemicFailureBacksOff ==
    pc \in {"main_idle", "main_backoff", "terminated"} =>
        IF systemic_streak > 0
        THEN pc # "main_idle" /\ consecutive_errors = systemic_streak
        ELSE pc = "main_idle" /\ consecutive_errors = 0

\* the mention the posts of thread were made for
threaded == IF outcome = "none" THEN mentions_list[mi] ELSE mentions_list[mi - 1]

\* C14: in the thread of a mention the first post replies to the mention and
\* every later post replies to the post created just before it, the posts
\* having distinct identifiers; thread_ids holds the identifiers of the
\* header and of the market posts that were created, in order, and nothing
\* else, so a market whose post failed is no reply target.
C14_ThreadLinks ==
    thread # <<>> =>
        /\ thread[1].reply_to = threaded.id
        /\ \A j \in 2..Len(thread) : thread[j].reply_to = thread[j - 1].id
        /\ \A j, k \in 1..Len(thread) : j # k => thread[j].id # thread[k].id
        /\ Len(thread_ids) = Cardinality(Of("header") \cup Of("market"))
        /\ \A j \in 1..Len(thread_ids) : thread_ids[j] = thread[j].id
        /\ Cardinality(Of("market")) =
              Cardinality({k \in 1..Len(results) : results[k].post = "posted"})

C14_Witness ==
    /\ outcome = "built"
    /\ Len(results) = 3
    /\ results[1].post = "posted"
    /\ results[2].post = "post_error"
    /\ results[3].post = "posted"
    /\ Len(thread) = 4
    /\ thread[1].reply_to = threaded.id
    /\ thread[3].market = 3
    /\ thread[3].reply_to = thread[2].id
    /\ thread[4].kind = "closing"
    /\ thread[4].reply_to = thread[3].id

\* C15: the loop over the fetched batch takes the mentions in ascending
\* order of their identifiers, whatever their creation times and the order
\* in which the mention source served them.
C15_AscendingIdentifierOrder ==
    \A a, b \in 1..Len(mentions_list) :
        a < b => mentions_list[a].id < mentions_list[b].id

\* C16: format_market_tweet does not raise for a market whose expiry
\* timestamp cannot be parsed; it returns a text that is not empty.
C16_UnparseableExpiryNeverRaises ==
    pc = "fmt_done" /\ ~live_markets[i].expiry_ok =>
        ~tweet_text.raised /\ tweet_text.len > 0

\* C17: within a poll cycle, the first post made for a mention is never
\* created while a post made for an earlier mention of the cycle has not yet
\* been followed by the 5-second sleep.
C17_PacingBetweenMentions ==
    [][thread = <<>> /\ thread' # <<>> => ~unpaced]_vars

\* C18: a write of the checkpoint file never replaces a stored identifier by
\* a smaller one.
C18_CheckpointNeverDecreases ==
    [][get_last_mention_id(file) # None /\ get_last_mention_id(file') # None
          => get_last_mention_id(file')[1] >= get_last_mention_id(file)[1]]_vars

\* C19: a step that writes the checkpoint writes the identifier of the
\* mention being processed, and the thread of that mention, made in this
\* poll cycle, starts with its header post and ends with its closing post;
\* a step in which the header post or the closing post fails leaves the
\* checkpoint as it was.
C19_CheckpointOnlyForBuiltThreads ==
    [][/\ (file' # file \/ last_set' # last_set) =>
              /\ Of("header") = {1}
              /\ thread[1].reply_to = mentions_list[mi].id
              /\ Of("closing") = {Len(thread)}
              /\ last_set' = Some(mentions_list[mi].id)
              /\ file'.exists
              /\ file'.content = str(mentions_list[mi].id)
       /\ outcome' \in {"header_failed", "closing_failed"} =>
              file' = file /\ last_set' = last_set]_vars

C19_Witness ==
    /\ outcome = "built"
    /\ last_set = Some(done.id)
    /\ Checkpoint(done.id)
    /\ Of("header") = {1}
    /\ Of("closing") = {Len(thread)}
    /\ thread[1].reply_to = done.id
    /\ \E k \in 1..Len(results) : results[k].post # "posted"

====
